---- MODULE Spec2Model ----
(***************************************************************************)
(* Quantized-Stream-NPU software golden model: symmetric int8              *)
(* quantization (quantize / dequantize / compute_quant_params), the        *)
(* fixed-point GEMM with its accumulator sizing (gemm / min_acc_width),    *)
(* the ReLU stage and the row-major stream order.                          *)
(*                                                                         *)
(* C++ `float` is IEEE-754 binary32.  A float is modelled exactly, as a    *)
(* record [k, s, m, e]: k is "fin", "inf" or "nan", s the sign bit, and a  *)
(* finite value is (-1)^s * m * 2^e with either 2^23 <= m < 2^24 (normal)  *)
(* or m < 2^23 and e = -149 (subnormal, zero).  Every arithmetic operator  *)
(* rounds to nearest, ties to even, as the hardware does.                  *)
(***************************************************************************)
EXTENDS Integers, Sequences, FiniteSets

----------------------------------------------------------------------------
(* Program constants                                                       *)

kArraySize == 4
kDataWidth == 8
kInt8Max == (2 ^ (kDataWidth - 1)) - 1
kInt8Min == -(2 ^ (kDataWidth - 1))

Int32Max == 2147483647
Int32Min == (-2147483647) - 1

----------------------------------------------------------------------------
(* IEEE-754 binary32                                                       *)

MantBits == 24
EMin == -149
EMax == 104
TwoP23 == 2 ^ (MantBits - 1)
TwoP24 == 2 ^ MantBits

Fin(s, m, e) == [k |-> "fin", s |-> s, m |-> m, e |-> e]
Inf(s) == [k |-> "inf", s |-> s, m |-> 0, e |-> 0]
NaN == [k |-> "nan", s |-> 0, m |-> 0, e |-> 0]
Zero(s) == Fin(s, 0, EMin)

IsNaN(a) == a.k = "nan"
IsInf(a) == a.k = "inf"
IsFin(a) == a.k = "fin"
IsZero(a) == a.k = "fin" /\ a.m = 0

RECURSIVE BitLen(_)
BitLen(n) == IF n = 0 THEN 0 ELSE 1 + BitLen(n \div 2)

Xor(s, t) == (s + t) % 2

\* The finite value m * 2^e with its mantissa brought to 24 bits (the
\* exponent of a subnormal goes below EMin while an operation works on it).
Norm(a) ==
  LET L == BitLen(a.m)
  IN  [m |-> a.m * 2 ^ (MantBits - L), e |-> a.e - (MantBits - L)]

\* Round (M + f) * 2^e, where 0 < f < 1 iff sticky, to the nearest float,
\* ties to even.  M < 2^30; a sticky M has at least 26 bits.
RoundPack(s, M, e, sticky) ==
  IF M = 0 THEN Zero(s)
  ELSE
    LET L  == BitLen(M)
        E  == IF e + L - MantBits < EMin THEN EMin ELSE e + L - MantBits
        sh == E - e
    IN  IF sh <= 0
          THEN IF E > EMax THEN Inf(s) ELSE Fin(s, M * 2 ^ (-sh), E)
        ELSE IF sh > L THEN Zero(s)
        ELSE
          LET q    == M \div 2 ^ sh
              r    == M % 2 ^ sh
              half == 2 ^ (sh - 1)
              up   == r > half \/ (r = half /\ (sticky \/ q % 2 = 1))
              q1   == IF up THEN q + 1 ELSE q
              m2   == IF q1 = TwoP24 THEN TwoP23 ELSE q1
              e2   == IF q1 = TwoP24 THEN E + 1 ELSE E
          IN  IF e2 > EMax THEN Inf(s) ELSE Fin(s, m2, e2)

\* static_cast<float>(n) for an int n with |n| < 2^24: exact.
FromInt(n) ==
  IF n < 0 THEN RoundPack(1, -n, 0, FALSE) ELSE RoundPack(0, n, 0, FALSE)

\* The float n * 2^e (an input or a literal given by its binary expansion).
Dy(n, e) ==
  IF n < 0 THEN RoundPack(1, -n, e, FALSE) ELSE RoundPack(0, n, e, FALSE)

FNeg(a) == IF IsNaN(a) THEN a ELSE [a EXCEPT !.s = 1 - a.s]

\* std::abs(float)
FAbs(a) == IF IsNaN(a) THEN a ELSE [a EXCEPT !.s = 0]

\* |a| < |b| for finite a, b in canonical form.
MagLt(a, b) == a.e < b.e \/ (a.e = b.e /\ a.m < b.m)

\* a < b
FLt(a, b) ==
  IF IsNaN(a) \/ IsNaN(b) THEN FALSE
  ELSE IF IsZero(a) /\ IsZero(b) THEN FALSE
  ELSE IF a.s # b.s THEN a.s = 1
  ELSE IF IsInf(a) THEN (a.s = 1 /\ ~IsInf(b))
  ELSE IF IsInf(b) THEN b.s = 0
  ELSE IF a.s = 0 THEN MagLt(a, b) ELSE MagLt(b, a)

FEq(a, b) ==
  /\ ~IsNaN(a) /\ ~IsNaN(b)
  /\ \/ (IsZero(a) /\ IsZero(b))
     \/ a = b

FLe(a, b) == FLt(a, b) \/ FEq(a, b)
FGt(a, b) == FLt(b, a)

RECURSIVE DivBits(_, _, _, _)
DivBits(rem, den, n, acc) ==
  IF n = 0 THEN <<acc, rem>>
  ELSE IF 2 * rem >= den THEN DivBits(2 * rem - den, den, n - 1, 2 * acc + 1)
  ELSE DivBits(2 * rem, den, n - 1, 2 * acc)

\* a / b
FDiv(a, b) ==
  IF IsNaN(a) \/ IsNaN(b) THEN NaN
  ELSE IF IsInf(a) THEN (IF IsInf(b) THEN NaN ELSE Inf(Xor(a.s, b.s)))
  ELSE IF IsInf(b) THEN Zero(Xor(a.s, b.s))
  ELSE IF IsZero(b) THEN (IF IsZero(a) THEN NaN ELSE Inf(Xor(a.s, b.s)))
  ELSE IF IsZero(a) THEN Zero(Xor(a.s, b.s))
  ELSE
    LET na == Norm(a)
        nb == Norm(b)
        d  == DivBits(na.m % nb.m, nb.m, 26, na.m \div nb.m)
    IN  RoundPack(Xor(a.s, b.s), d[1], na.e - nb.e - 26, d[2] # 0)

\* a * b
FMul(a, b) ==
  IF IsNaN(a) \/ IsNaN(b) THEN NaN
  ELSE IF IsInf(a) \/ IsInf(b)
    THEN (IF IsZero(a) \/ IsZero(b) THEN NaN ELSE Inf(Xor(a.s, b.s)))
  ELSE IF IsZero(a) \/ IsZero(b) THEN Zero(Xor(a.s, b.s))
  ELSE
    LET na  == Norm(a)
        nb  == Norm(b)
        a1  == na.m \div 4096
        a0  == na.m % 4096
        b1  == nb.m \div 4096
        b0  == nb.m % 4096
        mid == a1 * b0 + a0 * b1
        los == (mid % 4096) * 4096 + a0 * b0
        lo  == los % TwoP24
        hi  == a1 * b1 + (mid \div 4096) + (los \div TwoP24)
    IN  RoundPack(Xor(a.s, b.s), hi * 16 + (lo \div 1048576),
                  na.e + nb.e + 20, lo % 1048576 # 0)

\* a + b
FAdd(a, b) ==
  IF IsNaN(a) \/ IsNaN(b) THEN NaN
  ELSE IF IsInf(a) THEN (IF IsInf(b) /\ a.s # b.s THEN NaN ELSE a)
  ELSE IF IsInf(b) THEN b
  ELSE IF IsZero(a) /\ IsZero(b) THEN Zero(IF a.s = 1 /\ b.s = 1 THEN 1 ELSE 0)
  ELSE IF IsZero(a) THEN b
  ELSE IF IsZero(b) THEN a
  ELSE
    LET big == IF a.e >= b.e THEN a ELSE b
        sml == IF a.e >= b.e THEN b ELSE a
        d   == big.e - sml.e
        Mb  == big.m * 8
        t   == sml.m * 8
        Ms  == IF d > 27 THEN 1
               ELSE (t \div 2 ^ d) + (IF t % 2 ^ d # 0 /\ (t \div 2 ^ d) % 2 = 0
                                        THEN 1 ELSE 0)
    IN  IF big.s = sml.s THEN RoundPack(big.s, Mb + Ms, big.e - 3, FALSE)
        ELSE IF Mb > Ms THEN RoundPack(big.s, Mb - Ms, big.e - 3, FALSE)
        ELSE IF Ms > Mb THEN RoundPack(sml.s, Ms - Mb, big.e - 3, FALSE)
        ELSE Zero(0)

\* a - b
FSub(a, b) == FAdd(a, FNeg(b))

\* std::round(float): to the nearest integer, halfway cases away from zero.
FRound(a) ==
  IF ~IsFin(a) \/ a.e >= 0 THEN a
  ELSE IF -a.e > MantBits THEN Zero(a.s)
  ELSE
    LET q == a.m \div 2 ^ (-a.e)
        r == a.m % 2 ^ (-a.e)
        n == IF 2 * r >= 2 ^ (-a.e) THEN q + 1 ELSE q
    IN  RoundPack(a.s, n, 0, FALSE)

\* The int value of an integral-valued float whose value an int32_t holds.
InInt32(a) ==
  /\ IsFin(a)
  /\ \/ a.e <= 7
     \/ (a.e = 8 /\ a.m = TwoP23 /\ a.s = 1)

IntOf(a) ==
  IF a.m = 0 THEN 0
  ELSE IF a.e = 8 THEN Int32Min
  ELSE LET v == IF a.e >= 0 THEN a.m * 2 ^ a.e
                ELSE IF -a.e > MantBits THEN 0 ELSE a.m \div 2 ^ (-a.e)
       IN  IF a.s = 1 THEN -v ELSE v

----------------------------------------------------------------------------
(* Quantization: QuantParams, quantize, dequantize, compute_quant_params   *)

QuantParams(s, zp) == [scale |-> s, zero_point |-> zp]

\* QuantParams(): scale(1.0f), zero_point(0)
DefaultParams == QuantParams(FromInt(1), 0)

\* The float literal 1e-8f.
kEpsilon == Fin(0, 11258999, -50)

\* std::max(a, b): (a < b) ? b : a
FMax(a, b) == IF FLt(a, b) THEN b ELSE a

compute_quant_params_noguard(min_val, max_val) ==
  QuantParams(FDiv(FMax(FAbs(min_val), FAbs(max_val)), FromInt(kInt8Max)), 0)

compute_quant_params_affine(min_val, max_val) ==
  LET abs_max == FMax(FAbs(min_val), FAbs(max_val))
  IN  IF FLt(abs_max, kEpsilon) THEN QuantParams(FromInt(1), kInt8Min)
      ELSE QuantParams(FDiv(abs_max, FromInt(kInt8Max)), kInt8Min)

compute_quant_params(min_val, max_val) ==
  LET abs_max == FMax(FAbs(min_val), FAbs(max_val))
  IN  IF FLt(abs_max, kEpsilon) THEN QuantParams(FromInt(1), 0)
      ELSE QuantParams(FDiv(abs_max, FromInt(kInt8Max)), 0)

\* What an undefined int32_t computation leaves in the register: the
\* "integer indefinite" value of cvttss2si, or the saturated value of a
\* saturating conversion.
UBInt32 == {Int32Min, Int32Max}

\* static_cast<int32_t>(a): undefined when a's value is not an int32_t's.
CastInt32(a) == IF InInt32(a) THEN {IntOf(a)} ELSE UBInt32

\* x + y on int32_t: undefined on overflow.
AddInt32(x, y) ==
  IF (y > 0 /\ x > Int32Max - y) \/ (y < 0 /\ x < Int32Min - y) THEN UBInt32
  ELSE {x + y}

\* The two range tests and the narrowing cast of an in-range value.
Saturate(quantized) ==
  IF quantized < kInt8Min THEN kInt8Min
  ELSE IF quantized > kInt8Max THEN kInt8Max
  ELSE quantized

\* Truncation toward zero in place of std::round.
FTruncate(a) ==
  IF ~IsFin(a) \/ a.e >= 0 THEN a
  ELSE IF -a.e > MantBits THEN Zero(a.s)
  ELSE RoundPack(a.s, a.m \div 2 ^ (-a.e), 0, FALSE)

\* std::round as quantize applies it to value / params.scale.
RoundQuotient(a) == FRound(a)

\* quantize(value, params): the set of values a call can return (one value
\* unless the conversion or the addition is undefined).
quantize(value, params) ==
  { Saturate(quantized) :
      quantized \in UNION { AddInt32(c, params.zero_point) :
                   c \in CastInt32(RoundQuotient(FDiv(value, params.scale))) } }

\* dequantize(value, params)
dequantize(value, params) ==
  FMul(FSub(FromInt(value), FromInt(params.zero_point)), params.scale)

----------------------------------------------------------------------------
(* Matrix operations: min_acc_width, gemm, relu, stream_order              *)

Idx == 0 .. (kArraySize - 1)

\* Matrix m{}: value-initialised, every element 0.
ZeroMatrix == [r \in Idx |-> [cc \in Idx |-> 0]]

\* The while loop of min_acc_width: count the halvings of max_partial.
RECURSIVE GuardLoop(_, _)
GuardLoop(guard_bits, max_partial) ==
  IF max_partial > 0 THEN GuardLoop(guard_bits + 1, max_partial \div 2)
  ELSE guard_bits

min_acc_width_no_guard(dw, n) == 2 * dw

min_acc_width_from_size(dw, n) == 2 * dw + GuardLoop(0, n)

min_acc_width(dw, n) == 2 * dw + GuardLoop(0, n - 1)

\* The value of x as an int16_t.
Wrap16(x) == ((x + 32768) % 65536) - 32768

MacStep16(s, x, y) == Wrap16(s + x * y)

\* sum += a[i][k] * b[k][j], on int.  With elements of at most 9 bits and
\* at most 9 products the sum stays far inside int.
MacStep(s, x, y) == s + x * y

\* The k loop of gemm for one cell over n products: row and col are the
\* row of a and the column of b, indexed from 0.
RECURSIVE DotFrom(_, _, _, _, _)
DotFrom(row, col, n, kk, s) ==
  IF kk < n THEN DotFrom(row, col, n, kk + 1, MacStep(s, row[kk], col[kk]))
  ELSE s

\* gemm(a, b)
gemm(ma, mb) ==
  [r \in Idx |-> [cc \in Idx |->
     DotFrom(ma[r], [kk \in Idx |-> mb[kk][cc]], kArraySize, 0, 0)]]

relu_saturating(m) ==
  [r \in Idx |-> [cc \in Idx |->
     IF m[r][cc] < 0 THEN 0
     ELSE IF m[r][cc] > kInt8Max THEN kInt8Max ELSE m[r][cc]]]

\* relu(m): a copy of m with every negative element set to 0.
relu(m) ==
  [r \in Idx |-> [cc \in Idx |-> IF m[r][cc] < 0 THEN 0 ELSE m[r][cc]]]

RECURSIVE StreamColMajor(_, _, _, _)
StreamColMajor(m, r, cc, values) ==
  IF r = kArraySize THEN values
  ELSE IF cc = kArraySize THEN StreamColMajor(m, r + 1, 0, values)
  ELSE StreamColMajor(m, r, cc + 1, Append(values, m[cc][r]))

stream_order_col_major(m) == StreamColMajor(m, 0, 0, <<>>)

\* The two loops of stream_order: push_back(m[r][c]), r outer, c inner.
RECURSIVE StreamLoop(_, _, _, _)
StreamLoop(m, r, cc, values) ==
  IF r = kArraySize THEN values
  ELSE IF cc = kArraySize THEN StreamLoop(m, r + 1, 0, values)
  ELSE StreamLoop(m, r, cc + 1, Append(values, m[r][cc]))

\* stream_order(m)
stream_order(m) == StreamLoop(m, 0, 0, <<>>)

\* make_sample_matrix(false, rng)
make_sample_matrix ==
  [r \in Idx |-> [cc \in Idx |->
     IF r = cc THEN r + 1 ELSE IF r < cc THEN cc - r ELSE -(r - cc)]]

----------------------------------------------------------------------------
(* State                                                                   *)

VARIABLES
  pc,          \* the position of the run
  \* quantization run (quant_test.cpp, host_demo.cpp main)
  min_val,     \* the calibration range handed to compute_quant_params
  max_val,
  origin,      \* how params was built: "default", "calibrated", "constructed"
  params,      \* QuantParams
  value,       \* the float handed to quantize
  q,           \* quantize's result
  dq,          \* dequantize's result
  \* accumulator sizing
  data_width,  \* element width w
  array_size,  \* array size N
  acc_width,   \* min_acc_width(data_width, array_size)
  kidx,        \* products accumulated so far into acc
  acc,         \* the running sum of one cell over array_size products
  \* integer pipeline (host_demo.cpp main, legacy mode)
  a, b,        \* the input matrices
  c,           \* gemm's result matrix while it is filled
  i, j, k,     \* gemm's loop indices
  sum,         \* gemm's running sum of cell (i, j)
  raw,         \* gemm(a, b)
  relu_out,    \* relu(raw)
  streamed,    \* stream_order(relu_out)
  \* command line and process outcome (main of host_demo.cpp and of
  \* gen_test_vectors.cpp)
  prog,        \* which main runs: "host_demo" or "gen_test_vectors"
  argv,        \* argv[1 .. argc - 1], each a sequence of characters
  argi,        \* the index i of the argument loop
  randomize, use_quantization, extra_bits, seed,
  required_width, configured_width,
  out,         \* what was written to std::cout, in order
  err,         \* what was written to std::cerr
  exit_status, \* the status the process ended with, Running until then
  \* quantized workflow and vector file
  a_float, b_float, a_params, b_params,
  golden,      \* gemm(a, b) of gen_test_vectors.cpp
  vecfile,     \* the lines of build/test_vectors.hex, in order
  vr, vc,      \* the indices r, c of the loop that writes the file
  \* calibration of a float matrix from its own range
  fm,          \* the float matrix
  fmin, fmax,  \* find_float_matrix_range(fm, fmin, fmax)
  fparams,     \* compute_quant_params(fmin, fmax)
  q_max, q_min, \* the quantized ends of the range, as test_scaling takes them
  qm           \* quantize_matrix(fm, fparams)

qvars == <<min_val, max_val, origin, params, value, q, dq>>
wvars == <<data_width, array_size, acc_width, kidx, acc>>
gvars == <<a, b, c, i, j, k, sum, raw, relu_out, streamed>>
cvars == <<prog, argv, argi, randomize, use_quantization, extra_bits, seed,
           required_width, configured_width, out, err, exit_status>>
vvars == <<a_float, b_float, a_params, b_params, golden, vecfile, vr, vc>>
rvars == <<fm, fmin, fmax, fparams, q_max, q_min, qm>>
xvars == <<cvars, vvars, rvars>>
vars == <<pc, qvars, wvars, gvars, xvars>>

----------------------------------------------------------------------------
(* Inputs of the quantization runs                                         *)

\* Half-steps (k + 1/2) * scale are sampled for k in -MaxStep .. MaxStep.
MaxStep == 127

FltMax == Fin(0, TwoP24 - 1, EMax)

\* The neighbours of a finite non-zero float, away from and toward zero.
MagUp(f) ==
  IF f.m = TwoP24 - 1
    THEN (IF f.e = EMax THEN Inf(f.s) ELSE Fin(f.s, TwoP23, f.e + 1))
    ELSE Fin(f.s, f.m + 1, f.e)

MagDown(f) ==
  IF f.m = TwoP23 /\ f.e > EMin THEN Fin(f.s, TwoP24 - 1, f.e - 1)
  ELSE Fin(f.s, f.m - 1, f.e)

\* (min_val, max_val) pairs: those of quant_test.cpp, both orders, a
\* degenerate and a nearly degenerate range, the threshold 1e-8f itself,
\* and very small and very large ranges.
CalRanges ==
  { <<FromInt(-127), FromInt(127)>>, <<FromInt(127), FromInt(-127)>>,
    <<FromInt(-50), FromInt(50)>>,   <<FromInt(-100), FromInt(100)>>,
    <<FromInt(-10), FromInt(100)>>,  <<FromInt(100), FromInt(-10)>>,
    <<FromInt(-10), FromInt(10)>>,   <<Dy(-101, -1), Dy(101, -1)>>,
    <<Zero(0), Zero(0)>>,            <<Zero(1), Fin(0, 9007199, -53)>>,
    <<FNeg(kEpsilon), kEpsilon>>,    <<MagDown(kEpsilon), Zero(0)>>,
    <<Fin(1, 8589935, -33), Fin(0, 8589935, -33)>>,
    <<FromInt(3), FromInt(7)>>,      <<FromInt(-1000), FromInt(1000)>>,
    <<Fin(1, 13234890, 76), Fin(0, 13234890, 76)>>,
    <<FNeg(FltMax), FltMax>> }

\* QuantParams built directly, as the tests build QuantParams(1.0f, 0) and
\* QuantParams(0.5f, 0): scale > 0.
Scales == { FromInt(1), Dy(1, -1), FromInt(3) }
ZeroPoints == { 0, 5, -5 }

\* Finite values handed to quantize whatever the parameters are: in range,
\* just out of range (200.0f of the clipping test), and beyond int32_t.
FixedValues ==
  { Zero(0), Zero(1), FromInt(1), FromInt(-1), FromInt(50), FromInt(-50),
    FromInt(127), FromInt(-127), FromInt(128), FromInt(-128),
    FromInt(200), FromInt(-200), Dy(255, -1), Dy(-257, -1),
    Fin(0, 11120148, -18),
    Dy(1, 31), Dy(-1, 31), Fin(0, 11718750, 8), Fin(1, 11718750, 8),
    Fin(0, 11368684, 43), FltMax, FNeg(FltMax), Dy(1, EMin) }

AbsMax(lo, hi) == IF FLt(FAbs(lo), FAbs(hi)) THEN FAbs(hi) ELSE FAbs(lo)

\* Values around the rounding boundaries of a scale, and the ends of the
\* calibrated range.
StepValues(scale, lo, hi) ==
  LET hs == { FMul(Dy(2 * n + 1, -1), scale) : n \in (-MaxStep) .. MaxStep }
      fs == { h \in hs : IsFin(h) /\ ~IsZero(h) }
  IN  fs \cup { MagUp(h) : h \in fs } \cup { MagDown(h) : h \in fs }
         \cup { AbsMax(lo, hi), FNeg(AbsMax(lo, hi)) }

\* A calibrated run also samples the rounding boundaries of its scale.
Values(how, p, lo, hi) ==
  IF how = "calibrated" THEN FixedValues \cup StepValues(p.scale, lo, hi)
  ELSE FixedValues

----------------------------------------------------------------------------
(* The quantization run: build the parameters, quantize, dequantize        *)

\* The parts of the state a run does not use.
IdleQ ==
  /\ min_val = Zero(0) /\ max_val = Zero(0)
  /\ origin = "default" /\ params = DefaultParams
  /\ value = Zero(0) /\ q = 0 /\ dq = Zero(0)

IdleW ==
  /\ data_width = kDataWidth /\ array_size = kArraySize
  /\ acc_width = 0 /\ kidx = 0 /\ acc = 0

IdleG ==
  /\ a = ZeroMatrix /\ b = ZeroMatrix /\ c = ZeroMatrix
  /\ i = 0 /\ j = 0 /\ k = 0 /\ sum = 0
  /\ raw = ZeroMatrix /\ relu_out = ZeroMatrix /\ streamed = <<>>

\* FMatrix m{}
ZeroFMatrix == [r \in Idx |-> [cc \in Idx |-> Zero(0)]]

\* The exit status of a main that has not returned.
Running == -1

IdleC ==
  /\ prog = "none" /\ argv = <<>> /\ argi = 1
  /\ randomize = FALSE /\ use_quantization = FALSE
  /\ extra_bits = 0 /\ seed = [hi |-> 0, lo |-> 0]
  /\ required_width = 0 /\ configured_width = 0
  /\ out = <<>> /\ err = <<>> /\ exit_status = Running

IdleV ==
  /\ a_float = ZeroFMatrix /\ b_float = ZeroFMatrix
  /\ a_params = DefaultParams /\ b_params = DefaultParams
  /\ golden = ZeroMatrix /\ vecfile = <<>> /\ vr = 0 /\ vc = 0

IdleR ==
  /\ fm = ZeroFMatrix /\ fmin = Zero(0) /\ fmax = Zero(0)
  /\ fparams = DefaultParams /\ q_max = 0 /\ q_min = 0 /\ qm = ZeroMatrix

IdleX == IdleC /\ IdleV /\ IdleR

InitQ ==
  /\ pc = "start"
  /\ \E r \in CalRanges : min_val = r[1] /\ max_val = r[2]
  /\ origin = "default"
  /\ params = DefaultParams
  /\ value = Zero(0)
  /\ q = 0
  /\ dq = Zero(0)
  /\ IdleW /\ IdleG /\ IdleX

\* QuantParams params = compute_quant_params(min_val, max_val);
Calibrate ==
  /\ pc = "start"
  /\ params' = compute_quant_params(min_val, max_val)
  /\ origin' = "calibrated"
  /\ pc' = "ready"
  /\ UNCHANGED <<min_val, max_val, value, q, dq>>
  /\ UNCHANGED <<wvars, gvars, xvars>>

\* QuantParams params(s, zp);
Construct ==
  /\ pc = "start"
  /\ \E s \in Scales, zp \in ZeroPoints : params' = QuantParams(s, zp)
  /\ origin' = "constructed"
  /\ pc' = "ready"
  /\ UNCHANGED <<min_val, max_val, value, q, dq>>
  /\ UNCHANGED <<wvars, gvars, xvars>>

\* int8_t q = quantize(value, params);
Quantize ==
  /\ pc = "ready"
  /\ \E v \in Values(origin, params, min_val, max_val) :
       /\ value' = v
       /\ \E r \in quantize(v, params) : q' = r
  /\ pc' = "quantized"
  /\ UNCHANGED <<min_val, max_val, origin, params, dq>>
  /\ UNCHANGED <<wvars, gvars, xvars>>

\* float dq = dequantize(q, params);
Dequantize ==
  /\ pc = "quantized"
  /\ dq' = dequantize(q, params)
  /\ pc' = "done"
  /\ UNCHANGED <<min_val, max_val, origin, params, value, q>>
  /\ UNCHANGED <<wvars, gvars, xvars>>

NextQ == Calibrate \/ Construct \/ Quantize \/ Dequantize

SpecQ == InitQ /\ [][NextQ]_vars

----------------------------------------------------------------------------
(* Claims about the quantization run                                       *)

Quantized == pc \in {"quantized", "done"}

\* round(value / scale), the float quantize converts to int32_t.
Rounded == FRound(FDiv(value, params.scale))

\* round(value / scale) + zero_point lies above int_max / below int_min.
MapsAbove == FGt(Rounded, FromInt(kInt8Max - params.zero_point))
MapsBelow == FLt(Rounded, FromInt(kInt8Min - params.zero_point))

\* C1: saturation totality.  Whatever the value and the parameters
\* (scale > 0), quantize returns a value in [-128, 127]; a value that maps
\* above 127 returns exactly 127 and one that maps below -128 exactly -128.
C1_SaturationTotality ==
  Quantized =>
    /\ q \in kInt8Min .. kInt8Max
    /\ MapsAbove => q = kInt8Max
    /\ MapsBelow => q = kInt8Min

AbsMaxOfRange == AbsMax(min_val, max_val)

\* |value| <= max(|min_val|, |max_val|)
InCalibratedRange == FLe(FAbs(value), AbsMaxOfRange)

\* std::abs(reconstructed - original)
ReconError == FAbs(FSub(dq, value))

HalfStep == FDiv(params.scale, FromInt(2))

RoundTripDone == origin = "calibrated" /\ pc = "done" /\ InCalibratedRange

\* C3, as stated: inside the calibrated range the round trip is within
\* scale / 2 of the value.
C3_ReconstructionBound == RoundTripDone => FLe(ReconError, HalfStep)

\* C3, amended: for a range with abs_max <= 2^127 the round trip is within
\* (scale / 2) * (1 + 2^-14) of the value: the rounding of value / scale
\* and of q * scale adds a few units in the last place to the half step.
C3_ReconstructionBoundRounded ==
  (RoundTripDone /\ FLe(AbsMaxOfRange, Dy(1, 127))) =>
    FLe(ReconError, FMul(HalfStep, Dy(16385, -14)))

\* A round trip in [-100, 100] that lands beyond the exact half step.
C3_Witness ==
  /\ RoundTripDone
  /\ min_val = FromInt(-100) /\ max_val = FromInt(100)
  /\ q = 123
  /\ FGt(ReconError, HalfStep)

\* C7: symmetric calibration.  For every (min_val, max_val), in either
\* order, zero_point is 0 and scale is strictly positive: 1.0 when
\* abs_max < 1e-8 and abs_max / 127 otherwise; (-127, 127) gives 1.0 and
\* (-50, 50) gives 50/127.
C7_SymmetricCalibration ==
  origin = "calibrated" =>
    /\ params.zero_point = 0
    /\ FGt(params.scale, Zero(0))
    /\ IF FLt(AbsMaxOfRange, kEpsilon)
         THEN params.scale = FromInt(1)
         ELSE params.scale = FDiv(AbsMaxOfRange, FromInt(kInt8Max))
    /\ AbsMaxOfRange = FromInt(127) => params.scale = FromInt(1)
    /\ AbsMaxOfRange = FromInt(50) => params.scale = Fin(0, 13210406, -25)

\* The asymmetric range given as (100, -10).
C7_Witness ==
  /\ origin = "calibrated"
  /\ min_val = FromInt(100) /\ max_val = FromInt(-10)
  /\ params = QuantParams(FDiv(FromInt(100), FromInt(127)), 0)

\* C8: zero preservation.  With calibrated parameters, the degenerate
\* range included, quantize(0.0) is 0 and dequantize of it is 0.0.
C8_ZeroPreservation ==
  (origin = "calibrated" /\ IsZero(value)) =>
    /\ Quantized => q = 0
    /\ pc = "done" => FEq(dq, Zero(0))

\* The round trip of 0.0 under the parameters of the range (0, 0).
C8_Witness ==
  /\ origin = "calibrated" /\ pc = "done"
  /\ IsZero(min_val) /\ IsZero(max_val)
  /\ value = Zero(0) /\ q = 0 /\ dq = Zero(0)

----------------------------------------------------------------------------
(* Accumulator sizing: min_acc_width, then one cell of a product of        *)
(* array_size x array_size matrices of data_width-bit elements accumulated *)
(* as gemm accumulates it                                                  *)

\* Element widths 2 .. MaxDataWidth and array sizes 1 .. MaxArraySize.
MaxDataWidth == 8
MaxArraySize == 8

\* Small widths and sizes, where every pair of a row and a column can be
\* enumerated.
MaxSmallWidth == 3
MaxSmallSize == 4

\* The signed range of a width-bit element.
ElemMin(width) == -(2 ^ (width - 1))
ElemMax(width) == (2 ^ (width - 1)) - 1
ElemRange(width) == ElemMin(width) .. ElemMax(width)

\* The elements the sized run feeds: the whole range of a small width,
\* both ends of the range and -1 of a larger one.
Elements(width) ==
  IF width <= MaxSmallWidth THEN ElemRange(width)
  ELSE { ElemMin(width), -1, ElemMax(width) }

InitW ==
  /\ pc = "unsized"
  /\ data_width \in 2 .. MaxDataWidth
  /\ array_size \in 1 .. MaxArraySize
  /\ acc_width = 0 /\ kidx = 0 /\ acc = 0
  /\ IdleQ /\ IdleG /\ IdleX

\* const int required_width = min_acc_width(data_width, array_size);
Size ==
  /\ pc = "unsized"
  /\ acc_width' = min_acc_width(data_width, array_size)
  /\ pc' = "sized"
  /\ UNCHANGED <<data_width, array_size, kidx, acc, qvars, gvars, xvars>>

\* One pass of gemm's k loop.
Mac ==
  /\ pc = "sized"
  /\ kidx < array_size
  /\ \E x \in Elements(data_width), y \in Elements(data_width) :
       acc' = MacStep(acc, x, y)
  /\ kidx' = kidx + 1
  /\ UNCHANGED <<pc, data_width, array_size, acc_width, qvars, gvars, xvars>>

\* c[i][j] = sum;
Store ==
  /\ pc = "sized"
  /\ kidx = array_size
  /\ pc' = "stored"
  /\ UNCHANGED <<wvars, qvars, gvars, xvars>>

NextW == Size \/ Mac \/ Store

SpecW == InitW /\ [][NextW]_vars

\* The same run over the small widths and sizes.
InitM ==
  /\ pc = "unsized"
  /\ data_width \in 2 .. MaxSmallWidth
  /\ array_size \in 1 .. MaxSmallSize
  /\ acc_width = 0 /\ kidx = 0 /\ acc = 0
  /\ IdleQ /\ IdleG /\ IdleX

SpecM == InitM /\ [][NextW]_vars

----------------------------------------------------------------------------
(* Claims about the accumulator width                                      *)

\* v fits the signed two's-complement range of bits bits.
FitsSigned(v, bits) == -(2 ^ (bits - 1)) <= v /\ v <= (2 ^ (bits - 1)) - 1

\* ceil(log2(n)) for n >= 1: the least g with 2^g >= n.
CeilLog2(n) == CHOOSE g \in 0 .. 30 : 2 ^ g >= n /\ (g = 0 \/ 2 ^ (g - 1) < n)

IsPowerOfTwo(n) == \E g \in 0 .. 30 : n = 2 ^ g

Sized == pc \in {"sized", "stored"}

\* C4: accumulator sufficiency.  Every partial and final sum of a cell of
\* a product of N x N matrices of w-bit elements fits min_acc_width(w, N)
\* bits.
C4_AccumulatorSufficient == Sized => FitsSigned(acc, acc_width)

\* The worst case of the reference geometry: 4 products of -128 * -128 in 18
\* bits.
C4_Witness ==
  /\ pc = "stored"
  /\ data_width = kDataWidth /\ array_size = kArraySize
  /\ acc_width = 18
  /\ acc = kArraySize * kInt8Min * kInt8Min

\* C5: min_acc_width(w, N) = 2 * w + ceil(log2(N)) for every N >= 1, a
\* power of two or not; min_acc_width(8, 4) = 18 and min_acc_width(8, 1) = 16.
C5_WidthFormula ==
  Sized =>
    /\ acc_width = 2 * data_width + CeilLog2(array_size)
    /\ (data_width = 8 /\ array_size = 4) => acc_width = 18
    /\ (data_width = 8 /\ array_size = 1) => acc_width = 16

\* A size that is no power of two: min_acc_width(8, 5) = 16 + 3.
C5_Witness ==
  /\ pc = "sized"
  /\ data_width = 8 /\ array_size = 5
  /\ acc_width = 19

\* Some cell of a product of N x N matrices of w-bit elements does not fit
\* bits bits.
SomeCellOverflows(width, n, bits) ==
  \E row \in [0 .. (n - 1) -> ElemRange(width)] :
    \E col \in [0 .. (n - 1) -> ElemRange(width)] :
      ~FitsSigned(DotFrom(row, col, n, 0, 0), bits)

\* C6, as stated: min_acc_width(w, N) is minimal for every w >= 2 and
\* N >= 1: some product has a cell that does not fit one bit fewer.
C6_WidthMinimal ==
  Sized => SomeCellOverflows(data_width, array_size, acc_width - 1)

\* C6, amended: min_acc_width(w, N) is minimal when N is a power of two.
C6_WidthMinimalPowerOfTwo ==
  (Sized /\ IsPowerOfTwo(array_size)) =>
    SomeCellOverflows(data_width, array_size, acc_width - 1)

\* A power of two above 1, sized and accumulated to the end.
C6_Witness ==
  /\ pc = "stored"
  /\ array_size = 4
  /\ acc_width = 2 * data_width + 2
  /\ ~FitsSigned(acc, acc_width - 1)

----------------------------------------------------------------------------
(* The integer pipeline of main: gemm, relu, stream_order                  *)

ConstMatrix(v) == [r \in Idx |-> [cc \in Idx |-> v]]

Checker(v, w) ==
  [r \in Idx |-> [cc \in Idx |-> IF (r + cc) % 2 = 0 THEN v ELSE w]]

\* Rows of one sign, alternating between the ends of the int8 range.
Striped == [r \in Idx |-> [cc \in Idx |-> IF r % 2 = 0 THEN kInt8Min ELSE kInt8Max]]

\* Sixteen different elements.
Counting == [r \in Idx |-> [cc \in Idx |-> (r * kArraySize + cc) - 5]]

\* Matrices with elements in the int8 range: the sample matrix of the
\* demo, the extremes that drive a sum to its largest magnitudes, and
\* matrices with mixed signs.
InputMatrices ==
  { make_sample_matrix, ConstMatrix(kInt8Min), ConstMatrix(kInt8Max),
    Checker(kInt8Min, kInt8Max), Checker(3, -7), Striped, Counting,
    ZeroMatrix }

InitG ==
  /\ pc = "gemm"
  /\ a \in InputMatrices
  /\ b \in InputMatrices
  /\ c = ZeroMatrix
  /\ i = 0 /\ j = 0 /\ k = 0 /\ sum = 0
  /\ raw = ZeroMatrix /\ relu_out = ZeroMatrix /\ streamed = <<>>
  /\ IdleQ /\ IdleW /\ IdleX

\* sum += a[i][k] * b[k][j];
GemmMac ==
  /\ pc = "gemm"
  /\ k < kArraySize
  /\ sum' = MacStep(sum, a[i][k], b[k][j])
  /\ k' = k + 1
  /\ UNCHANGED <<pc, a, b, c, i, j, raw, relu_out, streamed, qvars, wvars, xvars>>

\* c[i][j] = sum; then the next cell, or return c.
GemmStore ==
  /\ pc = "gemm"
  /\ k = kArraySize
  /\ c' = [c EXCEPT ![i][j] = sum]
  /\ sum' = 0
  /\ k' = 0
  /\ IF j + 1 < kArraySize
       THEN j' = j + 1 /\ i' = i /\ pc' = pc /\ raw' = raw
       ELSE IF i + 1 < kArraySize
         THEN j' = 0 /\ i' = i + 1 /\ pc' = pc /\ raw' = raw
         ELSE j' = 0 /\ i' = 0 /\ pc' = "relu" /\ raw' = c'
  /\ UNCHANGED <<a, b, relu_out, streamed, qvars, wvars, xvars>>

\* const Matrix relu_out = relu(raw);
Relu ==
  /\ pc = "relu"
  /\ relu_out' = relu(raw)
  /\ pc' = "stream"
  /\ UNCHANGED <<a, b, c, i, j, k, sum, raw, streamed, qvars, wvars, xvars>>

\* const auto streamed = stream_order(relu_out);
Stream ==
  /\ pc = "stream"
  /\ streamed' = stream_order(relu_out)
  /\ pc' = "finished"
  /\ UNCHANGED <<a, b, c, i, j, k, sum, raw, relu_out, qvars, wvars, xvars>>

NextG == GemmMac \/ GemmStore \/ Relu \/ Stream

SpecG == InitG /\ [][NextG]_vars

----------------------------------------------------------------------------
(* Claims about the pipeline                                               *)

\* The sum of x[r][t] * y[t][cc] over 0 <= t < n, in the integers.
RECURSIVE SumProducts(_, _, _, _, _)
SumProducts(x, y, r, cc, n) ==
  IF n = 0 THEN 0
  ELSE SumProducts(x, y, r, cc, n - 1) + x[r][n - 1] * y[n - 1][cc]

Multiplied == pc \in {"relu", "stream", "finished"}

\* C2: gemm(a, b) is the exact integer product.  The running sum of the
\* cell being computed is the exact sum of the products taken so far, and
\* every stored cell, and the returned matrix, hold the exact sum over k.
C2_GemmExact ==
  /\ pc = "gemm" =>
       /\ sum = SumProducts(a, b, i, j, k)
       /\ \A r \in Idx, cc \in Idx :
            (r < i \/ (r = i /\ cc < j)) =>
              c[r][cc] = SumProducts(a, b, r, cc, kArraySize)
  /\ Multiplied =>
       /\ \A r \in Idx, cc \in Idx :
            raw[r][cc] = SumProducts(a, b, r, cc, kArraySize)
       /\ raw = gemm(a, b)

\* The product of the two all -128 matrices: every cell is 65536.
C2_Witness ==
  /\ pc = "relu"
  /\ a = ConstMatrix(kInt8Min) /\ b = ConstMatrix(kInt8Min)
  /\ raw = ConstMatrix(65536)

Activated == pc \in {"stream", "finished"}

\* C9: relu(M)[i][j] = max(0, M[i][j]): negative cells become 0, the others
\* are returned unchanged whatever their magnitude, M is not modified, and
\* relu(relu(M)) = relu(M).
C9_ReluClipsBelow ==
  Activated =>
    /\ \A r \in Idx, cc \in Idx :
         relu_out[r][cc] = IF raw[r][cc] > 0 THEN raw[r][cc] ELSE 0
    /\ raw = c
    /\ relu(relu_out) = relu_out

\* A product with a negative cell and a cell above the int8 range.
C9_Witness ==
  /\ pc = "stream"
  /\ \E r \in Idx, cc \in Idx : raw[r][cc] < 0 /\ relu_out[r][cc] = 0
  /\ \E r \in Idx, cc \in Idx :
       raw[r][cc] > kInt8Max /\ relu_out[r][cc] = raw[r][cc]

\* C10: stream_order(M) has N * N values and the one at index r * N + c is
\* M[r][c] (Sequences count from 1).
C10_RowMajor ==
  pc = "finished" =>
    /\ Len(streamed) = kArraySize * kArraySize
    /\ \A r \in Idx, cc \in Idx :
         streamed[r * kArraySize + cc + 1] = relu_out[r][cc]
    /\ streamed[1] = relu_out[0][0]
    /\ streamed[2] = relu_out[0][1]
    /\ streamed[kArraySize + 1] = relu_out[1][0]

\* A streamed matrix whose elements (0, 1) and (1, 0) differ.
C10_Witness ==
  /\ pc = "finished"
  /\ relu_out[0][1] # relu_out[1][0]
  /\ streamed[2] = relu_out[0][1]
  /\ streamed[kArraySize + 1] = relu_out[1][0]

----------------------------------------------------------------------------
(* Strings, std::stoul / std::stoi and hexadecimal output                  *)

\* A string is the sequence of its characters.
OptRandom == <<"-", "-", "r", "a", "n", "d", "o", "m">>
OptQuantize == <<"-", "-", "q", "u", "a", "n", "t", "i", "z", "e">>
OptSeed == <<"-", "-", "s", "e", "e", "d", "=">>
OptExtraBits == <<"-", "-", "e", "x", "t", "r", "a", "-", "b", "i", "t", "s", "=">>

\* std::string::substr(pos, n) and substr(pos), for pos <= size()
substr(str, pos, n) ==
  SubSeq(str, pos + 1, IF pos + n > Len(str) THEN Len(str) ELSE pos + n)

substr_from(str, pos) == SubSeq(str, pos + 1, Len(str))

\* starts_with(value, prefix) of host_demo.cpp
starts_with(str, prefix) ==
  /\ Len(str) >= Len(prefix)
  /\ SubSeq(str, 1, Len(prefix)) = prefix

DigitChars == <<"0", "1", "2", "3", "4", "5", "6", "7", "8", "9">>
HexChars == DigitChars \o <<"a", "b", "c", "d", "e", "f">>

IsDigit(ch) == \E n \in 1 .. Len(DigitChars) : DigitChars[n] = ch
DigitVal(ch) == (CHOOSE n \in 1 .. Len(DigitChars) : DigitChars[n] = ch) - 1

\* An unsigned long as four 16-bit limbs, least significant first.
TwoP16 == 2 ^ 16
NoLimbs == <<0, 0, 0, 0>>

\* limbs * 10 + d, and whether the result left the unsigned long range.
MulAdd(limbs, d) ==
  LET t1 == limbs[1] * 10 + d
      t2 == limbs[2] * 10 + t1 \div TwoP16
      t3 == limbs[3] * 10 + t2 \div TwoP16
      t4 == limbs[4] * 10 + t3 \div TwoP16
  IN  [limbs |-> <<t1 % TwoP16, t2 % TwoP16, t3 % TwoP16, t4 % TwoP16>>,
       over |-> t4 \div TwoP16 > 0]

\* The digits of str from position pos on (1-based), as strtoul reads them.
RECURSIVE ReadDigits(_, _, _, _, _)
ReadDigits(str, pos, limbs, over, count) ==
  IF pos > Len(str) \/ ~IsDigit(str[pos])
    THEN [limbs |-> limbs, over |-> over, count |-> count]
    ELSE LET r == MulAdd(limbs, DigitVal(str[pos]))
         IN  ReadDigits(str, pos + 1, r.limbs, over \/ r.over, count + 1)

RECURSIVE SkipSpace(_, _)
SkipSpace(str, pos) ==
  IF pos <= Len(str) /\ str[pos] = " " THEN SkipSpace(str, pos + 1) ELSE pos

\* strtoul / strtol in base 10: white space, an optional sign, digits; what
\* follows the digits is ignored.
ReadNumber(str) ==
  LET p0 == SkipSpace(str, 1)
      signed == p0 <= Len(str) /\ str[p0] \in {"+", "-"}
      neg == signed /\ str[p0] = "-"
      r == ReadDigits(str, IF signed THEN p0 + 1 ELSE p0, NoLimbs, FALSE, 0)
  IN  [neg |-> neg, limbs |-> r.limbs, over |-> r.over, count |-> r.count]

\* A uint32_t as its two 16-bit halves.
Seed32(hi, lo) == [hi |-> hi, lo |-> lo]

\* -x on uint32_t
NegU32(x) ==
  IF x.lo = 0 THEN Seed32((TwoP16 - x.hi) % TwoP16, 0)
  ELSE Seed32(TwoP16 - 1 - x.hi, TwoP16 - x.lo)

\* static_cast<std::uint32_t>(std::stoul(str)): thrown is "none", or the
\* exception std::stoul throws.
stoul(str) ==
  LET r == ReadNumber(str)
      low == Seed32(r.limbs[2], r.limbs[1])
  IN  IF r.count = 0 THEN [thrown |-> "invalid_argument", val |-> Seed32(0, 0)]
      ELSE IF r.over THEN [thrown |-> "out_of_range", val |-> Seed32(0, 0)]
      ELSE [thrown |-> "none", val |-> IF r.neg THEN NegU32(low) ELSE low]

\* std::stoi(str)
stoi(str) ==
  LET r == ReadNumber(str)
      wide == r.over \/ r.limbs[3] # 0 \/ r.limbs[4] # 0
      mag == r.limbs[2] * TwoP16 + r.limbs[1]
  IN  IF r.count = 0 THEN [thrown |-> "invalid_argument", val |-> 0]
      ELSE IF ~wide /\ r.limbs[2] < TwoP16 \div 2
        THEN [thrown |-> "none", val |-> IF r.neg THEN -mag ELSE mag]
      ELSE IF ~wide /\ r.neg /\ r.limbs[2] = TwoP16 \div 2 /\ r.limbs[1] = 0
        THEN [thrown |-> "none", val |-> Int32Min]
      ELSE [thrown |-> "out_of_range", val |-> 0]

\* The hexadecimal digits of n >= 0 as operator<< writes them under
\* std::hex: lower case, no prefix, no leading zeros.
RECURSIVE HexDigits(_)
HexDigits(n) ==
  IF n < 16 THEN <<HexChars[n + 1]>>
  ELSE Append(HexDigits(n \div 16), HexChars[(n % 16) + 1])

RECURSIVE PadLeft(_, _)
PadLeft(str, n) == IF Len(str) >= n THEN str ELSE PadLeft(<<"0">> \o str, n)

\* x & 0xFF on int
Low8(x) == x % 256

\* x & 0xFFFFFFFF: x converted to unsigned int, as its two 16-bit halves.
Low32(x) == Seed32((x \div TwoP16) % TwoP16, x % TwoP16)

\* The line written for an int, and for an unsigned int.
HexLine(n) == HexDigits(n)

HexLineU32(u) ==
  IF u.hi = 0 THEN HexDigits(u.lo)
  ELSE HexDigits(u.hi) \o PadLeft(HexDigits(u.lo), 4)

----------------------------------------------------------------------------
(* Float matrices: range, calibration and quantization cell by cell        *)

\* make_float_matrix(false, rng, offset) of gen_test_vectors.cpp; that of
\* host_demo.cpp is the same with no offset.
make_float_matrix(offset) ==
  [r \in Idx |-> [cc \in Idx |->
     IF r = cc THEN FAdd(FAdd(FromInt(r), Dy(3, -1)), FromInt(offset))
     ELSE IF r < cc THEN FAdd(FromInt(cc - r), Dy(1, -1))
     ELSE FNeg(FAdd(FromInt(r - cc), Dy(1, -2)))]]

\* The scan of find_float_matrix_range over the cells n, n + 1, ... in
\* row-major order.
RECURSIVE RangeScan(_, _, _, _)
RangeScan(mf, n, lo, hi) ==
  IF n = kArraySize * kArraySize THEN <<lo, hi>>
  ELSE LET x == mf[n \div kArraySize][n % kArraySize]
       IN  RangeScan(mf, n + 1, IF FLt(x, lo) THEN x ELSE lo,
                                IF FGt(x, hi) THEN x ELSE hi)

\* A scan that keeps the first cell as the minimum.
find_float_matrix_range_max_only(mf) ==
  <<mf[0][0], RangeScan(mf, 0, mf[0][0], mf[0][0])[2]>>

\* find_float_matrix_range(m, min_val, max_val): <<min_val, max_val>>
find_float_matrix_range(mf) == RangeScan(mf, 0, mf[0][0], mf[0][0])

\* The results quantize can give for the first n cells in row-major order.
RECURSIVE CellOutcomes(_, _, _)
CellOutcomes(mf, p, n) ==
  IF n = 0 THEN { <<>> }
  ELSE { Append(done, x) :
           done \in CellOutcomes(mf, p, n - 1),
           x \in quantize(mf[(n - 1) \div kArraySize][(n - 1) % kArraySize], p) }

\* quantize_matrix(m, params): the matrices a call can return.
quantize_matrix(mf, p) ==
  { [r \in Idx |-> [cc \in Idx |-> cells[r * kArraySize + cc + 1]]] :
      cells \in CellOutcomes(mf, p, kArraySize * kArraySize) }

----------------------------------------------------------------------------
(* Command lines                                                           *)

\* A command line has at most MaxArgs arguments.
MaxArgs == 2

\* Arguments: the four options, values std::stoul / std::stoi read, values
\* they reject, and an argument neither main knows.
ArgWords ==
  { OptRandom, OptQuantize,
    OptSeed \o <<"4", "2">>,
    OptSeed \o <<"x", "y", "z">>,
    OptSeed \o <<"9", "9", "9", "9", "9", "9", "9", "9", "9", "9", "9", "9", "9", "9", "9", "9", "9", "9", "9", "9">>,
    OptExtraBits \o <<"2">>,
    OptExtraBits \o <<"-", "5">>,
    OptExtraBits \o <<"a", "b", "c">>,
    OptExtraBits \o <<"2", "1", "4", "7", "4", "8", "3", "6", "4", "7">>,
    <<"-", "-", "b", "o", "g", "u", "s">> }

CommandLines == UNION { [1 .. n -> ArgWords] : n \in 0 .. MaxArgs }

EXIT_SUCCESS == 0
EXIT_FAILURE == 1

\* The status of a process ended by abort(): std::terminate calls it when
\* an exception leaves main (128 + SIGABRT as a shell reports it).
Aborted == 134

\* What the terminate handler writes for an exception of the given type.
TerminateMessage(thrown) == <<"terminate called after throwing", thrown>>

----------------------------------------------------------------------------
(* main of gen_test_vectors.cpp                                            *)

\* Float matrices std::uniform_real_distribution<float>(-30, 30) can fill:
\* one reaches -30, the other stays inside the interval.
RandomFloatA ==
  [r \in Idx |-> [cc \in Idx |-> Dy(15 * (r * kArraySize + cc) - 120, -2)]]

RandomFloatB ==
  [r \in Idx |-> [cc \in Idx |-> Dy(29 - 7 * ((3 * r + 5 * cc) % 8), -1)]]

RandomFloatPairs == { <<RandomFloatA, RandomFloatB>>, <<RandomFloatB, RandomFloatA>> }

InitV ==
  /\ pc = "args"
  /\ prog = "gen_test_vectors"
  /\ argv \in CommandLines
  /\ argi = 1
  /\ randomize = FALSE /\ use_quantization = FALSE /\ extra_bits = 0
  /\ seed = Seed32(57005, 48879)
  /\ required_width = 0 /\ configured_width = 0
  /\ out = <<>> /\ err = <<>> /\ exit_status = Running
  /\ IdleV /\ IdleR /\ IdleQ /\ IdleW /\ IdleG

\* One pass of the argument loop.  An exception of std::stoul leaves main.
GenArg ==
  /\ pc = "args" /\ prog = "gen_test_vectors"
  /\ argi <= Len(argv)
  /\ LET arg == argv[argi]
         parsed == stoul(substr_from(arg, 7))
     IN  IF arg = OptRandom
           THEN /\ randomize' = TRUE
                /\ argi' = argi + 1
                /\ UNCHANGED <<pc, seed, err, exit_status>>
         ELSE IF substr(arg, 0, 7) = OptSeed
           THEN IF parsed.thrown = "none"
                  THEN /\ seed' = parsed.val
                       /\ argi' = argi + 1
                       /\ UNCHANGED <<pc, randomize, err, exit_status>>
                  ELSE /\ err' = TerminateMessage(parsed.thrown)
                       /\ exit_status' = Aborted
                       /\ pc' = "exited"
                       /\ UNCHANGED <<randomize, seed, argi>>
         ELSE /\ argi' = argi + 1
              /\ UNCHANGED <<pc, randomize, seed, err, exit_status>>
  /\ UNCHANGED <<prog, argv, use_quantization, extra_bits,
                 required_width, configured_width, out>>
  /\ UNCHANGED <<vvars, rvars, qvars, wvars, gvars>>

\* From the construction of rng to golden = gemm(a, b).
GenPrepare ==
  /\ pc = "args" /\ prog = "gen_test_vectors"
  /\ argi > Len(argv)
  /\ \E pair \in (IF randomize THEN RandomFloatPairs
                  ELSE { <<make_float_matrix(0), make_float_matrix(1)>> }) :
       LET ra == find_float_matrix_range(pair[1])
           rb == find_float_matrix_range(pair[2])
           pa == compute_quant_params(ra[1], ra[2])
           pb == compute_quant_params(rb[1], rb[2])
       IN  /\ a_float' = pair[1] /\ b_float' = pair[2]
           /\ a_params' = pa /\ b_params' = pb
           /\ \E qa \in quantize_matrix(pair[1], pa),
                 qb \in quantize_matrix(pair[2], pb) :
                /\ a' = qa /\ b' = qb
                /\ golden' = gemm(qa, qb)
  /\ pc' = "open"
  /\ UNCHANGED <<vecfile, vr, vc, cvars, rvars, qvars, wvars>>
  /\ UNCHANGED <<c, i, j, k, sum, raw, relu_out, streamed>>

\* std::ofstream vecfile("build/test_vectors.hex"), which can fail.
GenOpen ==
  /\ pc = "open"
  /\ \E opened \in BOOLEAN :
       IF opened
         THEN /\ pc' = "write_a"
              /\ UNCHANGED <<err, exit_status>>
         ELSE /\ err' = <<"ERROR: Could not open build/test_vectors.hex for writing">>
              /\ exit_status' = EXIT_FAILURE
              /\ pc' = "exited"
  /\ vecfile' = <<>> /\ vr' = 0 /\ vc' = 0
  /\ UNCHANGED <<prog, argv, argi, randomize, use_quantization, extra_bits,
                 seed, required_width, configured_width, out>>
  /\ UNCHANGED <<a_float, b_float, a_params, b_params, golden>>
  /\ UNCHANGED <<rvars, qvars, wvars, gvars>>

\* The element the loop body reads at (r, c), and the same read with the
\* indices exchanged.
ElementTransposed(mat, r, cc) == mat[cc][r]

Element(mat, r, cc) == mat[r][cc]

\* The position after (vr, vc) in a loop nest, and whether the nest ends.
LastCell == vr = kArraySize - 1 /\ vc = kArraySize - 1

WriteFrame ==
  /\ vr' = (IF vc = kArraySize - 1 THEN (vr + 1) % kArraySize ELSE vr)
  /\ vc' = (vc + 1) % kArraySize
  /\ UNCHANGED <<a_float, b_float, a_params, b_params, golden>>
  /\ UNCHANGED <<cvars, rvars, qvars, wvars, gvars>>

\* vecfile << std::hex << (a[r][c] & 0xFF) << "\n";
WriteA ==
  /\ pc = "write_a"
  /\ vecfile' = Append(vecfile, HexLine(Low8(Element(a, vr, vc))))
  /\ pc' = (IF LastCell THEN "write_b" ELSE "write_a")
  /\ WriteFrame

\* vecfile << std::hex << (b[r][c] & 0xFF) << "\n";
WriteB ==
  /\ pc = "write_b"
  /\ vecfile' = Append(vecfile, HexLine(Low8(Element(b, vr, vc))))
  /\ pc' = (IF LastCell THEN "write_golden" ELSE "write_b")
  /\ WriteFrame

\* vecfile << std::hex << (golden[r][c] & 0xFFFFFFFF) << "\n";
WriteGolden ==
  /\ pc = "write_golden"
  /\ vecfile' = Append(vecfile, HexLineU32(Low32(Element(golden, vr, vc))))
  /\ pc' = (IF LastCell THEN "summary" ELSE "write_golden")
  /\ WriteFrame

\* vecfile.close(), the summary on std::cout, return EXIT_SUCCESS.
GenSummary ==
  /\ pc = "summary"
  /\ out' = <<"banner", "parameters", "matrix a", "matrix b", "golden",
              "written", "ready">>
  /\ exit_status' = EXIT_SUCCESS
  /\ pc' = "exited"
  /\ UNCHANGED <<prog, argv, argi, randomize, use_quantization, extra_bits,
                 seed, required_width, configured_width, err>>
  /\ UNCHANGED <<vvars, rvars, qvars, wvars, gvars>>

NextV == GenArg \/ GenPrepare \/ GenOpen \/ WriteA \/ WriteB \/ WriteGolden
           \/ GenSummary

SpecV == InitV /\ [][NextV]_vars

----------------------------------------------------------------------------
(* Claim about the vector file                                             *)

\* The number a line of hexadecimal digits denotes.
HexCharVal(ch) == (CHOOSE n \in 1 .. Len(HexChars) : HexChars[n] = ch) - 1

RECURSIVE HexVal(_)
HexVal(line) ==
  IF Len(line) = 0 THEN 0
  ELSE 16 * HexVal(SubSeq(line, 1, Len(line) - 1)) + HexCharVal(line[Len(line)])

IsHexLine(line, maxlen) ==
  /\ Len(line) \in 1 .. maxlen
  /\ \A n \in 1 .. Len(line) : \E h \in 1 .. Len(HexChars) : HexChars[h] = line[n]

Cells == kArraySize * kArraySize

\* Line n (1-based) of a block of Cells lines stands for cell (RowOf, ColOf).
RowOf(n) == ((n - 1) % Cells) \div kArraySize
ColOf(n) == ((n - 1) % Cells) % kArraySize

\* The line is an element's value modulo 2^8, a number in 0 .. 255.
EncodesByte(line, x) ==
  /\ IsHexLine(line, 2)
  /\ HexVal(line) \in 0 .. 255
  /\ (HexVal(line) - x) % 256 = 0

\* The line is x modulo 2^32: x itself when x >= 0, and x + 2^32 when
\* x < 0, written over the upper and the lower four digits.
EncodesWord(line, x) ==
  /\ IsHexLine(line, 8)
  /\ LET full == PadLeft(line, 8)
         hi == HexVal(SubSeq(full, 1, 4))
         lo == HexVal(SubSeq(full, 5, 8))
     IN  IF x >= 0 THEN hi < TwoP16 \div 2 /\ hi * TwoP16 + lo = x
         ELSE hi >= TwoP16 \div 2 /\ (hi - TwoP16) * TwoP16 + lo = x

VectorsWritten == prog = "gen_test_vectors" /\ pc = "exited"
                    /\ exit_status = EXIT_SUCCESS

\* C11: the lines of the vector file are, in this order, the 16 elements
\* of quantized A row-major, the 16 of quantized B row-major and the 16 of
\* the raw product of A and B row-major; an A or B line is the element
\* modulo 2^8, a product line the element modulo 2^32; and a successful run
\* has written exactly 3 * N * N lines.
C11_VectorOrder ==
  /\ Len(vecfile) <= 3 * Cells
  /\ \A n \in 1 .. Len(vecfile) :
       IF n <= Cells THEN EncodesByte(vecfile[n], a[RowOf(n)][ColOf(n)])
       ELSE IF n <= 2 * Cells THEN EncodesByte(vecfile[n], b[RowOf(n)][ColOf(n)])
       ELSE EncodesWord(vecfile[n],
                        SumProducts(a, b, RowOf(n), ColOf(n), kArraySize))
  /\ VectorsWritten => Len(vecfile) = 3 * Cells

\* A successful run whose matrices are not symmetric and hold negative
\* elements, with a negative product cell.
C11_Witness ==
  /\ VectorsWritten
  /\ Len(vecfile) = 3 * Cells
  /\ \E r \in Idx, cc \in Idx :
       /\ a[r][cc] < 0 /\ a[r][cc] # a[cc][r]
       /\ b[r][cc] # b[cc][r]
  /\ \E r \in Idx, cc \in Idx : golden[r][cc] < 0 /\ golden[r][cc] # golden[cc][r]

----------------------------------------------------------------------------
(* main of host_demo.cpp                                                   *)

\* A float matrix std::uniform_real_distribution<float>(-50, 50) can fill,
\* and integer matrices std::uniform_int_distribution<int>(-32, 31) can.
HostRandomFloat ==
  [r \in Idx |-> [cc \in Idx |-> Dy(25 * (r * kArraySize + cc) - 200, -2)]]

HostRandomIntA ==
  [r \in Idx |-> [cc \in Idx |-> ((7 * r + 3 * cc) % 64) + kInt8Min \div 4]]

HostRandomIntB ==
  [r \in Idx |-> [cc \in Idx |-> (kInt8Max \div 4) - ((5 * r + 11 * cc) % 64)]]

InitH ==
  /\ pc = "args"
  /\ prog = "host_demo"
  /\ argv \in CommandLines
  /\ argi = 1
  /\ randomize = FALSE /\ use_quantization = FALSE
  /\ extra_bits = 4
  /\ seed = Seed32(192, 65518)
  /\ required_width = 0 /\ configured_width = 0
  /\ out = <<>> /\ err = <<>> /\ exit_status = Running
  /\ IdleV /\ IdleR /\ IdleQ /\ IdleW /\ IdleG

UsageMessage ==
  <<"Usage: [--random] [--quantize] [--seed=<value>] [--extra-bits=<value>]">>

\* What one pass of the argument loop does with arg: the new values of the
\* options, and the status and message if the pass ends the process.  An
\* exception of std::stoul or std::stoi leaves main.
HostArgEffect(arg) ==
  LET same == [status |-> Running, err |-> <<>>, randomize |-> randomize,
               use_quantization |-> use_quantization, seed |-> seed,
               extra_bits |-> extra_bits]
      sd == stoul(substr_from(arg, 7))
      eb == stoi(substr_from(arg, 13))
  IN  IF arg = OptRandom THEN [same EXCEPT !.randomize = TRUE]
      ELSE IF arg = OptQuantize THEN [same EXCEPT !.use_quantization = TRUE]
      ELSE IF starts_with(arg, OptSeed)
        THEN IF sd.thrown = "none" THEN [same EXCEPT !.seed = sd.val]
             ELSE [same EXCEPT !.status = Aborted,
                               !.err = TerminateMessage(sd.thrown)]
      ELSE IF starts_with(arg, OptExtraBits)
        THEN IF eb.thrown = "none" THEN [same EXCEPT !.extra_bits = eb.val]
             ELSE [same EXCEPT !.status = Aborted,
                               !.err = TerminateMessage(eb.thrown)]
      ELSE [same EXCEPT !.status = EXIT_FAILURE, !.err = UsageMessage]

\* One pass of the argument loop.
HostArg ==
  /\ pc = "args" /\ prog = "host_demo"
  /\ argi <= Len(argv)
  /\ LET eff == HostArgEffect(argv[argi])
     IN  /\ randomize' = eff.randomize
         /\ use_quantization' = eff.use_quantization
         /\ seed' = eff.seed
         /\ extra_bits' = eff.extra_bits
         /\ err' = eff.err
         /\ exit_status' = eff.status
         /\ pc' = (IF eff.status = Running THEN "args" ELSE "exited")
         /\ argi' = (IF eff.status = Running THEN argi + 1 ELSE argi)
  /\ UNCHANGED <<prog, argv, required_width, configured_width, out>>
  /\ UNCHANGED <<vvars, rvars, qvars, wvars, gvars>>

\* From the construction of rng to the two header lines; the sum of the
\* widths is an int addition.
HostWidths ==
  /\ pc = "args" /\ prog = "host_demo"
  /\ argi > Len(argv)
  /\ required_width' = min_acc_width(kDataWidth, kArraySize)
  /\ configured_width' \in AddInt32(min_acc_width(kDataWidth, kArraySize), extra_bits)
  /\ out' = <<"header", "quantization">>
  /\ pc' = (IF use_quantization THEN "quantized" ELSE "legacy")
  /\ UNCHANGED <<prog, argv, argi, randomize, use_quantization, extra_bits,
                 seed, err, exit_status>>
  /\ UNCHANGED <<vvars, rvars, qvars, wvars, gvars>>

\* The branch if (use_quantization), up to the printing of the quantized
\* matrices.
HostQuantized ==
  /\ pc = "quantized"
  /\ \E pair \in (IF randomize THEN { <<HostRandomFloat, RandomFloatB>> }
                  ELSE { <<make_float_matrix(0), make_float_matrix(0)>> }) :
       LET ra == find_float_matrix_range(pair[1])
           rb == find_float_matrix_range(pair[2])
           pa == compute_quant_params(ra[1], ra[2])
           pb == compute_quant_params(rb[1], rb[2])
       IN  /\ a_float' = pair[1] /\ b_float' = pair[2]
           /\ a_params' = pa /\ b_params' = pb
           /\ a' \in quantize_matrix(pair[1], pa)
           /\ b' \in quantize_matrix(pair[2], pb)
  /\ out' = out \o <<"parameters", "float a", "quantized a", "float b",
                     "quantized b">>
  /\ pc' = "product"
  /\ UNCHANGED <<prog, argv, argi, randomize, use_quantization, extra_bits,
                 seed, required_width, configured_width, err, exit_status>>
  /\ UNCHANGED <<golden, vecfile, vr, vc>>
  /\ UNCHANGED <<c, i, j, k, sum, raw, relu_out, streamed>>
  /\ UNCHANGED <<rvars, qvars, wvars>>

\* The else branch: the integer matrices.
HostLegacy ==
  /\ pc = "legacy"
  /\ \E pair \in (IF randomize THEN { <<HostRandomIntA, HostRandomIntB>> }
                  ELSE { <<make_sample_matrix, make_sample_matrix>> }) :
       /\ a' = pair[1] /\ b' = pair[2]
  /\ pc' = "product"
  /\ UNCHANGED <<c, i, j, k, sum, raw, relu_out, streamed>>
  /\ UNCHANGED <<cvars, vvars, rvars, qvars, wvars>>

\* const Matrix raw = gemm(a, b);
HostProduct ==
  /\ pc = "product"
  /\ raw' = gemm(a, b)
  /\ pc' = "activation"
  /\ UNCHANGED <<a, b, c, i, j, k, sum, relu_out, streamed>>
  /\ UNCHANGED <<cvars, vvars, rvars, qvars, wvars>>

\* const Matrix relu_out = relu(raw);
HostActivation ==
  /\ pc = "activation"
  /\ relu_out' = relu(raw)
  /\ pc' = "streaming"
  /\ UNCHANGED <<a, b, c, i, j, k, sum, raw, streamed>>
  /\ UNCHANGED <<cvars, vvars, rvars, qvars, wvars>>

\* const auto streamed = stream_order(relu_out); and the printing of the
\* matrices and of the stream.
HostStream ==
  /\ pc = "streaming"
  /\ streamed' = stream_order(relu_out)
  /\ out' = out \o (IF use_quantization
                      THEN <<"product", "relu", "float product", "float relu",
                             "stream">>
                      ELSE <<"matrix a", "matrix b", "product", "relu",
                             "stream">>)
  /\ pc' = "footer"
  /\ UNCHANGED <<prog, argv, argi, randomize, use_quantization, extra_bits,
                 seed, required_width, configured_width, err, exit_status>>
  /\ UNCHANGED <<a, b, c, i, j, k, sum, raw, relu_out>>
  /\ UNCHANGED <<vvars, rvars, qvars, wvars>>

\* The closing lines and return EXIT_SUCCESS.
HostFooter ==
  /\ pc = "footer"
  /\ out' = Append(out, "feed")
  /\ exit_status' = EXIT_SUCCESS
  /\ pc' = "exited"
  /\ UNCHANGED <<prog, argv, argi, randomize, use_quantization, extra_bits,
                 seed, required_width, configured_width, err>>
  /\ UNCHANGED <<vvars, rvars, qvars, wvars, gvars>>

NextH == HostArg \/ HostWidths \/ HostQuantized \/ HostLegacy \/ HostProduct
           \/ HostActivation \/ HostStream \/ HostFooter

SpecH == InitH /\ [][NextH]_vars

\* Either program, started with any command line.
SpecCli == (InitV \/ InitH) /\ [][NextV \/ NextH]_vars

----------------------------------------------------------------------------
(* Claims about the command line                                           *)

\* An argument that is none of the four options.
UnknownFlag(arg) ==
  /\ arg # OptRandom /\ arg # OptQuantize
  /\ ~starts_with(arg, OptSeed) /\ ~starts_with(arg, OptExtraBits)

\* A --seed= or --extra-bits= argument whose value is not read as a number.
UnparsableValue(arg) ==
  \/ starts_with(arg, OptSeed) /\ stoul(substr_from(arg, 7)).thrown # "none"
  \/ starts_with(arg, OptExtraBits) /\ stoi(substr_from(arg, 13)).thrown # "none"

Malformed ==
  \E n \in 1 .. Len(argv) : UnknownFlag(argv[n]) \/ UnparsableValue(argv[n])

FailedWithMessage ==
  pc = "exited" => exit_status # EXIT_SUCCESS /\ err # <<>>

\* C12: with an unknown flag or an unparsable --seed= / --extra-bits= value
\* on the command line, either program writes nothing to std::cout or to
\* the vector file and ends with a message and a non-zero status; and a
\* generator that ends without having written the vector file, as when the
\* file cannot be opened, ends with a message and a non-zero status.
C12_CliErrors ==
  /\ Malformed => out = <<>> /\ vecfile = <<>> /\ FailedWithMessage
  /\ (prog = "gen_test_vectors" /\ Len(vecfile) # 3 * Cells)
       => out = <<>> /\ FailedWithMessage

WidthsReported == prog = "host_demo" /\ out # <<>>

\* C13: once host_demo has reported the widths, required_width is
\* min_acc_width(8, 4) and configured_width is at least required_width.
C13_ConfiguredWidth ==
  WidthsReported =>
    /\ required_width = min_acc_width(kDataWidth, kArraySize)
    /\ configured_width >= required_width

----------------------------------------------------------------------------
(* Calibration of a float matrix from its own range                        *)

\* Ranges with min_val <= max_val, as a matrix has them.
MatrixRanges ==
  { rg \in CalRanges : FLe(rg[1], rg[2]) } \cup { <<FromInt(-100), FromInt(10)>> }

Shifts == { "none", "up", "down" }

\* x moved into [lo, hi]
Clamp(x, lo, hi) == IF FLt(x, lo) THEN lo ELSE IF FGt(x, hi) THEN hi ELSE x

\* Cell n of a matrix over the range (lo, hi): the two ends of the range,
\* and rounding boundaries (126.5, 125.5, ...) * scale of both signs, or
\* their neighbours, kept inside the range.
RangeCell(lo, hi, shift, n) ==
  LET scale == compute_quant_params(lo, hi).scale
      half == FMul(Dy(2 * (MaxStep - 1 - n) + 1, -1), scale)
      signed == IF n % 2 = 1 THEN FNeg(half) ELSE half
      moved == IF ~IsFin(signed) \/ IsZero(signed) \/ shift = "none" THEN signed
               ELSE IF shift = "up" THEN MagUp(signed) ELSE MagDown(signed)
  IN  IF n = 1 THEN lo
      ELSE IF n = kArraySize * kArraySize - 1 THEN hi
      ELSE Clamp(moved, lo, hi)

RangeMatrix(lo, hi, shift) ==
  [r \in Idx |-> [cc \in Idx |-> RangeCell(lo, hi, shift, r * kArraySize + cc)]]

RangeMatrices ==
  { RangeMatrix(rg[1], rg[2], shift) : rg \in MatrixRanges, shift \in Shifts }
    \cup { make_float_matrix(0), make_float_matrix(1), HostRandomFloat,
           RandomFloatA, RandomFloatB }

InitR ==
  /\ pc = "matrix"
  /\ fm \in RangeMatrices
  /\ fmin = Zero(0) /\ fmax = Zero(0)
  /\ fparams = DefaultParams
  /\ q_max = 0 /\ q_min = 0 /\ qm = ZeroMatrix
  /\ IdleC /\ IdleV /\ IdleQ /\ IdleW /\ IdleG

\* find_float_matrix_range(a_float, a_min, a_max);
FindRange ==
  /\ pc = "matrix"
  /\ fmin' = find_float_matrix_range(fm)[1]
  /\ fmax' = find_float_matrix_range(fm)[2]
  /\ pc' = "ranged"
  /\ UNCHANGED <<fm, fparams, q_max, q_min, qm>>
  /\ UNCHANGED <<cvars, vvars, qvars, wvars, gvars>>

\* QuantParams a_params = compute_quant_params(a_min, a_max);
CalibrateRange ==
  /\ pc = "ranged"
  /\ fparams' = compute_quant_params(fmin, fmax)
  /\ pc' = "scaled"
  /\ UNCHANGED <<fm, fmin, fmax, q_max, q_min, qm>>
  /\ UNCHANGED <<cvars, vvars, qvars, wvars, gvars>>

\* q_max = quantize(abs_max, params); q_min = quantize(-abs_max, params);
\* as test_scaling does for the range (-50, 50).
QuantizeEnds ==
  /\ pc = "scaled"
  /\ q_max' \in quantize(AbsMax(fmin, fmax), fparams)
  /\ q_min' \in quantize(FNeg(AbsMax(fmin, fmax)), fparams)
  /\ pc' = "ends"
  /\ UNCHANGED <<fm, fmin, fmax, fparams, qm>>
  /\ UNCHANGED <<cvars, vvars, qvars, wvars, gvars>>

\* Matrix a = quantize_matrix(a_float, a_params);
QuantizeMatrix ==
  /\ pc = "ends"
  /\ qm' \in quantize_matrix(fm, fparams)
  /\ pc' = "matrix_quantized"
  /\ UNCHANGED <<fm, fmin, fmax, fparams, q_max, q_min>>
  /\ UNCHANGED <<cvars, vvars, qvars, wvars, gvars>>

NextR == FindRange \/ CalibrateRange \/ QuantizeEnds \/ QuantizeMatrix

SpecR == InitR /\ [][NextR]_vars

----------------------------------------------------------------------------
(* Claim about the use of the int8 range                                   *)

NonDegenerate == FLe(kEpsilon, AbsMax(fmin, fmax))

\* C14: with parameters calibrated from a range whose abs_max is at least
\* 1e-8, abs_max quantizes to 127 and -abs_max to -127; every cell of a
\* matrix lies within abs_max of its own range, and the matrix quantized
\* with the parameters of that range holds values in -127 .. 127 only,
\* never -128.
C14_FullRangeNoMin ==
  /\ (pc \in {"ends", "matrix_quantized"} /\ NonDegenerate)
       => q_max = kInt8Max /\ q_min = -kInt8Max
  /\ pc \in {"ranged", "scaled", "ends", "matrix_quantized"}
       => \A r \in Idx, cc \in Idx : FLe(FAbs(fm[r][cc]), AbsMax(fmin, fmax))
  /\ pc = "matrix_quantized"
       => \A r \in Idx, cc \in Idx :
            /\ qm[r][cc] \in (-kInt8Max) .. kInt8Max
            /\ qm[r][cc] # kInt8Min

\* A matrix over an asymmetric range whose negative end is the larger one:
\* the end maps to -127, other cells to values of both signs.
C14_Witness ==
  /\ pc = "matrix_quantized"
  /\ NonDegenerate
  /\ FLt(fmax, FAbs(fmin))
  /\ \E r \in Idx, cc \in Idx : qm[r][cc] = -kInt8Max
  /\ \E r \in Idx, cc \in Idx : qm[r][cc] > 0
  /\ q_max = kInt8Max /\ q_min = -kInt8Max

====
